---- MODULE Spec2Model ----
(***************************************************************************)
(* Progressive spatial filtering of backend/app/services/location_analyzer *)
(* (class LocationAnalyzer), the criterion ranker and the /analyze handler *)
(* of backend/app/routers/analysis.py, and the legacy two-stage criterion  *)
(* of distanceFinder/app.py.                                               *)
(*                                                                         *)
(* Geometry.  The plane is modelled by its east-west cross-section through *)
(* the search centre.  A geographic coordinate is an integer mile mark x   *)
(* on that axis; a geometry (shapely Polygon / MultiPolygon) is the set of *)
(* unit cells it covers, cell k being the segment [k, k+1].  The planar    *)
(* (UTM) frame measures the same axis in metres: to_crs multiplies by      *)
(* MetersPerMile, the way back divides.  Buffers are built in the planar   *)
(* frame, as in the code, and a cell belongs to a buffer when the buffer   *)
(* covers it entirely.  A geometry with no cell is shapely's empty         *)
(* geometry (area 0).                                                      *)
(*                                                                         *)
(* External services (Nominatim geocoding, the OSM feature provider, the   *)
(* street-network download) answer nondeterministically on every call,     *)
(* with answers drawn from the small site sets below.                      *)
(***************************************************************************)
EXTENDS Integers, Sequences, FiniteSets, TLC

(***************************** bounds **************************************)
MaxRadius == 7        \* largest max_radius_miles of a session
MaxCriteria == 2      \* longest criteria list of an /analyze request
MaxCalls == 2         \* method calls on one analyzer in the direct-use spec
MaxRankLen == 3       \* longest list handed to the ranker in the ranker spec

(************************ program constants ********************************)
MetersPerMile == 1609             \* 1609.34 in the code, whole metres here
SqMetersPerSqMile == 2589988      \* 2589988.11 in the code
MAX_QUERY_EXPANSION_MILES == 5
NumVertices == 36

None == "None"

\* constants.py: speeds in mph; adjustments kept in tenths (1.2 -> 12)
TRAVEL_SPEEDS == [walk |-> 3, bike |-> 12, drive |-> 30]
BUFFER_ADJUSTMENTS == [walk |-> 12, bike |-> 13, drive |-> 15]
\* constants.py POI_TYPES, two of its entries; any other name is unmapped
POI_TYPES == [School |-> "amenity=school", Park |-> "leisure=park"]

\* distanceFinder/app.py class constants (drive is 55 mph there)
LEGACY_TRAVEL_SPEEDS == [walk |-> 3, bike |-> 12, drive |-> 55]

Modes == {"distance", "walk", "bike", "drive"}

(************************** the modelled world *****************************)
\* where the centre text may geocode to: axis position and degrees
CenterSites ==
  { [x |-> 0, lon |-> -79, lat |-> 36],
    [x |-> 1, lon |-> 151, lat |-> -34] }
RadiusChoices == {2, MaxRadius}
\* where a named location may geocode to (12 is outside every boundary)
GeoSites == {-1, 3, 12}
\* where features of a POI type may lie
FeatureSites == {-2, 0, 4}

Lo == -MaxRadius
Hi == MaxRadius + 2
Cells == Lo..(Hi - 1)

(***************************** geometry ************************************)
\* GeoDataFrame.to_crs(self.utm_crs) on a geometry / on a point
ToUtm(geom) == { k * MetersPerMile : k \in geom }
ToUtmPoint(x) == x * MetersPerMile
\* GeoDataFrame.to_crs(self.crs): back to the geographic frame
ToGeo(pgeom) == { m \div MetersPerMile : m \in pgeom }

PlanarCells == ToUtm(Cells)

\* shapely Point.buffer(d) in the planar frame: cells inside [px-d, px+d]
BufferPoint(px, d) ==
  { m \in PlanarCells : px - d <= m /\ m + MetersPerMile <= px + d }

\* the same with a reach that differs west and east of the point
BufferPointWE(px, west, east) ==
  { m \in PlanarCells : px - west <= m /\ m + MetersPerMile <= px + east }

\* shapely geometry.buffer(d), d >= 0, of a region: its dilation by d
BufferGeom(pgeom, d) ==
  { m \in PlanarCells : \E c \in pgeom : c - d <= m /\ m <= c + d }

\* a point lies in a (closed) geometry when it touches one of its cells
PointIn(x, geom) == x \in geom \/ (x - 1) \in geom

\* Python truthiness of an Optional[str] / Optional[dict] argument
Truthy(v) == v # None /\ v # ""

(************************** pure functions *********************************)
Min(a, b) == IF a <= b THEN a ELSE b

\* Python int(): truncation toward zero of the quotient n / d, d > 0
IntTrunc(n, d) == IF n >= 0 THEN n \div d ELSE -((-n) \div d)

\* _estimate_utm_crs that leaves out the "+ 1" of the zone
EstimateUtmCrs_ZoneFromZero(lon, lat) ==
  LET utm_zone == IntTrunc(lon + 180, 6)
  IN  IF lat >= 0 THEN 32600 + utm_zone ELSE 32700 + utm_zone

\* _estimate_utm_crs: "EPSG:326zz" / "EPSG:327zz" held as the EPSG number
EstimateUtmCrs(lon, lat) ==
  LET utm_zone == IntTrunc(lon + 180, 6) + 1
  IN  IF lat >= 0 THEN 32600 + utm_zone ELSE 32700 + utm_zone

\* _calculate_area_sq_miles, in tenths of a square mile: the cross-section
\* is a band one cell high, so a planar cell measures MetersPerMile squared
CalculateAreaSqMiles(geometry) ==
  LET gdf_projected == ToUtm(geometry)
      area_sq_m10 == Cardinality(gdf_projected) * MetersPerMile * MetersPerMile * 10
  IN  area_sq_m10 \div SqMetersPerSqMile

\* the sum of the four sine terms of _create_realistic_buffer at vertex i
\* (angle 2*pi*i/36), in units of 1e-5
VariationTable ==
  << 17895, 21304, 16773, 7257, -1921, -6080, -3761, 2623, 8406,
     9494, 4659, -4005, -12541, -17439, -17325, -13157, -7096, -1053,
     4110, 8353, 11698, 13710, 13702, 11432, 7593, 3562, 469,
     -1674, -4015, -7867, -13297, -18403, -20019, -15631, -5329, 7573 >>

\* mode_variation.get(travel_mode, 0.20), in hundredths
VariationIntensity(travel_mode) ==
  CASE travel_mode = "walk" -> 15
    [] travel_mode = "bike" -> 20
    [] travel_mode = "drive" -> 25
    [] OTHER -> 20

\* variation *= variation_intensity / 0.20, in units of 1e-5
ScaledVariation(i, travel_mode) ==
  (VariationTable[i + 1] * VariationIntensity(travel_mode)) \div 20

\* adjusted_distance of vertex i: distance_meters * (1 + variation)
VertexRadius(i, distance_meters, travel_mode) ==
  distance_meters + (distance_meters * ScaledVariation(i, travel_mode)) \div 100000

\* _create_realistic_buffer on the cross-section: the polygon is star-shaped
\* about the centroid, vertex 0 lies due east and vertex 18 due west, so it
\* cuts the axis in [cx - r18, cx + r0].  The closing by 1% of the distance
\* (buffer then unbuffer) leaves a segment as it is.
CreateRealisticBuffer(centroid_x, distance_meters, travel_mode) ==
  BufferPointWE(centroid_x,
                VertexRadius(NumVertices \div 2, distance_meters, travel_mode),
                VertexRadius(0, distance_meters, travel_mode))

\* _create_expanded_query_area; the expansion is given in metres
\* (miles * MetersPerMile) so that fractional miles stay integral
CreateExpandedQueryArea_NoCap(expansion_m, current, boundary) ==
  LET capped_expansion == expansion_m
  IN  IF capped_expansion <= 0
      THEN current
      ELSE LET current_projected == ToUtm(current)
               expanded == BufferGeom(current_projected, capped_expansion)
           IN  ToGeo(expanded) \cap boundary

\* _create_expanded_query_area that returns only what the expansion adds
CreateExpandedQueryArea_AddedRing(expansion_m, current, boundary) ==
  LET capped_expansion == Min(expansion_m, MAX_QUERY_EXPANSION_MILES * MetersPerMile)
  IN  IF capped_expansion <= 0
      THEN current
      ELSE LET current_projected == ToUtm(current)
               expanded == BufferGeom(current_projected, capped_expansion)
           IN  (ToGeo(expanded) \cap boundary) \ current

\* _create_expanded_query_area that hands the current area out as it is
CreateExpandedQueryArea_NoExpansion(expansion_m, current, boundary) == current

CreateExpandedQueryArea(expansion_m, current, boundary) ==
  LET capped_expansion == Min(expansion_m, MAX_QUERY_EXPANSION_MILES * MetersPerMile)
  IN  IF capped_expansion <= 0
      THEN current
      ELSE LET current_projected == ToUtm(current)
               expanded == BufferGeom(current_projected, capped_expansion)
           IN  ToGeo(expanded) \cap boundary

(******************** answers of the external services *********************)
\* ox.geocode_to_gdf / ox.geocode of a named location: a point or an exception
GeoAnswers ==
  {[raised |-> TRUE, x |-> 0]} \cup {[raised |-> FALSE, x |-> s] : s \in GeoSites}
NoGeo == [raised |-> TRUE, x |-> 0]

\* the same for the centre text
NoPoint == [x |-> 0, lon |-> 0, lat |-> 0]
CenterAnswers ==
  {[raised |-> TRUE, pt |-> NoPoint]} \cup {[raised |-> FALSE, pt |-> c] : c \in CenterSites}
\* the two attempts of __init__: the second is made only after the first raised
CenterAttempts ==
  { a \in CenterAnswers \X CenterAnswers : a[1].raised \/ a[2].raised }

\* ox.features_from_polygon(polygon, tags): the features of that type inside
\* the polygon (any set of them, possibly none), or an exception
FeaturesIn(polygon) == { s \in FeatureSites : PointIn(s, polygon) }
FeatureAnswers(polygon) ==
  {[raised |-> TRUE, feats |-> {}]} \cup
  {[raised |-> FALSE, feats |-> F] : F \in SUBSET FeaturesIn(polygon)}
NoFeat == [raised |-> TRUE, feats |-> {}]

\* the answers one criterion lookup can meet: only the service it calls
\* varies, and the second geocoder is asked only after the first has raised
EnvFor(poi_type, specific_location, query_area) ==
  IF Truthy(specific_location)
  THEN { e \in [g1 : GeoAnswers, g2 : GeoAnswers, feat : {NoFeat}, fault : {"none"}] :
           e.g1.raised \/ e.g2.raised }
  ELSE IF Truthy(poi_type)
  THEN { [g1 |-> NoGeo, g2 |-> NoGeo, feat |-> f, fault |-> "none"]
           : f \in FeatureAnswers(query_area) }
  ELSE { [g1 |-> NoGeo, g2 |-> NoGeo, feat |-> NoFeat, fault |-> "none"] }

\* the same answers together with an exception of the geometry library in the
\* call: none, one while the buffers are computed (projection, buffer, union,
\* intersection), or one while the stored result is measured and returned
Faults == { "none", "compute", "report" }
WithFaults(envs) == { [e EXCEPT !.fault = f] : e \in envs, f \in Faults }

\* whether _get_pois meets an exception of the service it calls (and logs it)
LookupRaised(poi_type, specific_location, env) ==
  IF Truthy(specific_location) THEN env.g1.raised /\ env.g2.raised
  ELSE IF Truthy(poi_type) THEN env.feat.raised
  ELSE FALSE

\* a GeoDataFrame of points, or Python None
NoneGdf == [none |-> TRUE, pts |-> {}]
Gdf(points) == [none |-> FALSE, pts |-> points]

\* _get_pois that falls back to a fixed point when a lookup raises
GetPois_FallbackPoint(poi_type, specific_location, query_area, env) ==
  IF Truthy(specific_location)
  THEN IF ~env.g1.raised THEN Gdf({env.g1.x})
       ELSE IF ~env.g2.raised THEN Gdf({env.g2.x})
       ELSE Gdf({0})
  ELSE IF Truthy(poi_type)
  THEN IF ~env.feat.raised THEN Gdf(env.feat.feats) ELSE Gdf({0})
  ELSE NoneGdf

\* _get_pois
GetPois(poi_type, specific_location, query_area, env) ==
  IF Truthy(specific_location)
  THEN IF ~env.g1.raised THEN Gdf({env.g1.x})
       ELSE IF ~env.g2.raised THEN Gdf({env.g2.x})
       ELSE NoneGdf
  ELSE IF Truthy(poi_type)
  THEN IF ~env.feat.raised THEN Gdf(env.feat.feats) ELSE NoneGdf
  ELSE NoneGdf

(******************************* state *************************************)
VARIABLES
  session,              \* "Uninitialized", "Ready" or "Failed" (__init__ raised)
  center_point,         \* self.center_point
  utm_crs,              \* self.utm_crs
  search_boundary,      \* self.search_boundary
  current_search_area,  \* self.current_search_area
  criteria_results,     \* self.criteria_results
  last_call,            \* the latest method call: its name, outcome and locals
  last_result,          \* what the latest get_current_result returned
  last_query,           \* the query area of the latest lookup and how it was made
  calls,                \* number of method calls made by the direct-use driver
  pc,                   \* position of the /analyze handler
  request,              \* the AnalysisRequest being served
  ordered_criteria,     \* ordered_criteria of analyze_location
  idx,                  \* how many of ordered_criteria the loop has handled
  log,                  \* last_call of every loop iteration, in order
  response,             \* the HTTP answer of analyze_location
  tripadvisor,          \* the TripAdvisor client, its usage file and its cache
  parked,               \* concurrent spec: the frame of the request not running
  rank_in,              \* ranker spec: the list handed to _order_criteria_smart
  rank_out,             \* ranker spec: the list it returned
  rank_list,            \* ranker spec: the caller's list object after the call
  rank_rerun,           \* ranker spec: a second call on the same list object
  realistic_buffer      \* buffer spec: the latest polygon of _create_realistic_buffer

analyzer == << session, center_point, utm_crs, search_boundary,
               current_search_area, criteria_results >>
observed == << last_call, last_result, last_query >>
router == << pc, request, ordered_criteria, idx, log, response >>
ranker == << rank_in, rank_out, rank_list, rank_rerun >>
vars == << analyzer, observed, calls, router, ranker, parked, tripadvisor,
          realistic_buffer >>

\* last_call: op and ret name the method and how it ended ("applied",
\* "skipped", "ok" or the exception); pts are the source points the lookup
\* gave, raw the geometry that was intersected with the current area, before
\* the current area when the call started, err whether the lookup ended in
\* an exception of a provider (every attempt raised), prev the op and ret of
\* the call before this one
NoCall == [op |-> "none", ret |-> "none", pts |-> {}, raw |-> {}, before |-> {},
           err |-> FALSE, prev |-> << "none", "none" >>]
Call(op, ret, pts, raw, err) ==
  [op |-> op, ret |-> ret, pts |-> pts, raw |-> raw, before |-> current_search_area,
   err |-> err, prev |-> << last_call.op, last_call.ret >>]
NoResult == [geometry |-> {}, criteria_count |-> -1, area_sq_miles |-> -1]
NoRequest == [center |-> "", radius_miles |-> 0, criteria |-> << >>]
\* last_query: area is the polygon handed to _get_pois; expanded tells whether
\* _create_expanded_query_area made it, from which expansion (metres) and
\* around which current area
NoQuery == [expanded |-> FALSE, expansion_m |-> 0, area |-> {}, current |-> {}]
Query(expanded, expansion_m, area) ==
  [expanded |-> expanded, expansion_m |-> IF expanded THEN expansion_m ELSE 0,
   area |-> area, current |-> current_search_area]
NoRerun == [done |-> FALSE, out |-> << >>]
NoResponse == [status |-> 0, criteria_applied |-> << >>, initial_area_sq_miles |-> 0,
               final_area_sq_miles |-> 0, geometry |-> {}, criteria_count |-> 0]

\* tripadvisor: created tells whether get_tripadvisor_client has built the
\* singleton; enabled is self.enabled; usage is the count of the current month
\* in monthly_usage.json; cache maps a cache key to the file stored under it:
\* its data ("absent" when there is no file) and the whole days since its
\* cached_at; op, key, result, cached_at, sent and over describe the latest
\* operation: its name, the cache key it was about, what it returned, whether
\* the returned dict carries a cached_at entry, how many API requests it sent,
\* and how many of them it sent although the recorded usage had already
\* reached monthly_limit
Absent == [data |-> "absent", age |-> 0]
NoClient ==
  [created |-> FALSE, enabled |-> FALSE, usage |-> 0,
   cache |-> [k \in {"cafe", "zoo"} |-> Absent],
   op |-> "none", key |-> "none", result |-> "none", cached_at |-> FALSE,
   sent |-> 0, over |-> 0]

\* realistic_buffer: the arguments of the call and, for each of the vertices
\* 0..num_vertices-1, its distance from the centroid in metres
NoPolygon == [distance_meters |-> 0, travel_mode |-> "none", radii |-> << >>]

\* the state of one request being served: the locals of analyze_location, its
\* analyzer among them
Frame ==
  [session |-> session, center_point |-> center_point, utm_crs |-> utm_crs,
   search_boundary |-> search_boundary, current_search_area |-> current_search_area,
   criteria_results |-> criteria_results, last_call |-> last_call,
   last_result |-> last_result, last_query |-> last_query, pc |-> pc,
   request |-> request, ordered_criteria |-> ordered_criteria, idx |-> idx,
   log |-> log, response |-> response]
NoFrame ==
  [session |-> "Uninitialized", center_point |-> NoPoint, utm_crs |-> 0,
   search_boundary |-> {}, current_search_area |-> {},
   criteria_results |-> << >>, last_call |-> NoCall,
   last_result |-> NoResult, last_query |-> NoQuery, pc |-> "idle",
   request |-> NoRequest, ordered_criteria |-> << >>, idx |-> 0,
   log |-> << >>, response |-> NoResponse]

Init ==
  /\ parked = NoFrame
  /\ realistic_buffer = NoPolygon
  /\ tripadvisor = NoClient
  /\ session = "Uninitialized"
  /\ center_point = NoPoint
  /\ utm_crs = 0
  /\ search_boundary = {}
  /\ current_search_area = {}
  /\ criteria_results = << >>
  /\ last_call = NoCall
  /\ last_result = NoResult
  /\ last_query = NoQuery
  /\ calls = 0
  /\ pc = "idle"
  /\ request = NoRequest
  /\ ordered_criteria = << >>
  /\ idx = 0
  /\ log = << >>
  /\ response = NoResponse
  /\ rank_in = << >>
  /\ rank_out = << >>
  /\ rank_list = << >>
  /\ rank_rerun = NoRerun

(************************ LocationAnalyzer methods *************************)
\* __init__ that starts the current area from the centre point, not the disk
AnalyzerInit_AreaFromPoint(max_radius_miles, a1, a2) ==
  IF a1.raised /\ a2.raised
  THEN /\ session' = "Failed"
       /\ last_call' = Call("__init__", "ValueError", {}, {}, TRUE)
       /\ UNCHANGED << center_point, utm_crs, search_boundary,
                       current_search_area, criteria_results, last_result, last_query >>
  ELSE LET point == IF ~a1.raised THEN a1.pt ELSE a2.pt
           center_projected == ToUtmPoint(point.x)
           buffer_meters == max_radius_miles * MetersPerMile
           boundary == ToGeo(BufferPoint(center_projected, buffer_meters))
       IN  /\ session' = "Ready"
           /\ center_point' = point
           /\ utm_crs' = EstimateUtmCrs(point.lon, point.lat)
           /\ search_boundary' = boundary
           /\ current_search_area' = ToGeo(BufferPoint(center_projected, 0))
           /\ criteria_results' = << >>
           /\ last_call' = Call("__init__", "ok", {}, {}, FALSE)
           /\ UNCHANGED << last_result, last_query >>

\* __init__: two geocoding attempts, then the frame and the circular boundary
AnalyzerInit(max_radius_miles, a1, a2) ==
  IF a1.raised /\ a2.raised
  THEN /\ session' = "Failed"
       /\ last_call' = Call("__init__", "ValueError", {}, {}, TRUE)
       /\ UNCHANGED << center_point, utm_crs, search_boundary,
                       current_search_area, criteria_results, last_result, last_query >>
  ELSE LET point == IF ~a1.raised THEN a1.pt ELSE a2.pt
           center_projected == ToUtmPoint(point.x)
           buffer_meters == max_radius_miles * MetersPerMile
           boundary == ToGeo(BufferPoint(center_projected, buffer_meters))
       IN  /\ session' = "Ready"
           /\ center_point' = point
           /\ utm_crs' = EstimateUtmCrs(point.lon, point.lat)
           /\ search_boundary' = boundary
           /\ current_search_area' = boundary
           /\ criteria_results' = << >>
           /\ last_call' = Call("__init__", "ok", {}, {}, FALSE)
           /\ UNCHANGED << last_result, last_query >>

\* criterion_name or "<default>"
NameOr(criterion_name, default) ==
  IF Truthy(criterion_name) THEN criterion_name ELSE default

\* the query polygon made from the boundary, whatever the current area is
SimpleQueryArea_FromBoundary(poi_type, specific_location, max_distance_miles) ==
  IF Truthy(poi_type) /\ ~Truthy(specific_location)
  THEN CreateExpandedQueryArea(max_distance_miles * MetersPerMile,
                               search_boundary, search_boundary)
  ELSE current_search_area

\* the query polygon add_simple_buffer_criterion hands to _get_pois
SimpleQueryArea(poi_type, specific_location, max_distance_miles) ==
  IF Truthy(poi_type) /\ ~Truthy(specific_location)
  THEN CreateExpandedQueryArea(max_distance_miles * MetersPerMile,
                               current_search_area, search_boundary)
  ELSE current_search_area

\* StoreResult that narrows the boundary along with the current area
StoreResult_NarrowsBoundary(op, pois, combined_buffer, name, description, err, ret) ==
  LET result_geometry == ToGeo(combined_buffer) \cap current_search_area
  IN  /\ current_search_area' = result_geometry
      /\ search_boundary' = result_geometry
      /\ criteria_results' = Append(criteria_results,
            [name |-> name, geometry |-> result_geometry, description |-> description])
      /\ last_call' = Call(op, ret, pois.pts, ToGeo(combined_buffer), err)
      /\ UNCHANGED << session, center_point, utm_crs, last_result >>

\* StoreResult that keeps only the record of the latest criterion
StoreResult_KeepsLatestOnly(op, pois, combined_buffer, name, description, err, ret) ==
  LET result_geometry == ToGeo(combined_buffer) \cap current_search_area
  IN  /\ current_search_area' = result_geometry
      /\ criteria_results' =
            << [name |-> name, geometry |-> result_geometry, description |-> description] >>
      /\ last_call' = Call(op, ret, pois.pts, ToGeo(combined_buffer), err)
      /\ UNCHANGED << session, center_point, utm_crs, search_boundary, last_result >>

\* StoreResult that puts the new record at the head of criteria_results
StoreResult_Prepend(op, pois, combined_buffer, name, description, err, ret) ==
  LET result_geometry == ToGeo(combined_buffer) \cap current_search_area
  IN  /\ current_search_area' = result_geometry
      /\ criteria_results' =
            << [name |-> name, geometry |-> result_geometry, description |-> description] >>
              \o criteria_results
      /\ last_call' = Call(op, ret, pois.pts, ToGeo(combined_buffer), err)
      /\ UNCHANGED << session, center_point, utm_crs, search_boundary, last_result >>

\* StoreResult that returns None, as for a skip, when nothing is left
StoreResult_EmptyIsSkip(op, pois, combined_buffer, name, description, err, ret) ==
  LET result_geometry == ToGeo(combined_buffer) \cap current_search_area
  IN  IF result_geometry = {}
      THEN /\ last_call' = Call(op, "skipped", pois.pts, ToGeo(combined_buffer), err)
           /\ UNCHANGED << analyzer, last_result >>
      ELSE /\ current_search_area' = result_geometry
           /\ criteria_results' = Append(criteria_results,
                 [name |-> name, geometry |-> result_geometry, description |-> description])
           /\ last_call' = Call(op, ret, pois.pts, ToGeo(combined_buffer), err)
           /\ UNCHANGED << session, center_point, utm_crs, search_boundary, last_result >>

\* StoreResult without the intersection with the current area
StoreResult_NoIntersection(op, pois, combined_buffer, name, description, err, ret) ==
  LET result_geometry == ToGeo(combined_buffer)
  IN  /\ current_search_area' = result_geometry
      /\ criteria_results' = Append(criteria_results,
            [name |-> name, geometry |-> result_geometry, description |-> description])
      /\ last_call' = Call(op, ret, pois.pts, ToGeo(combined_buffer), err)
      /\ UNCHANGED << session, center_point, utm_crs, search_boundary, last_result >>

\* StoreResult with a union in place of the intersection
StoreResult_Union(op, pois, combined_buffer, name, description, err, ret) ==
  LET result_geometry == (ToGeo(combined_buffer) \cap search_boundary)
                            \cup current_search_area
  IN  /\ current_search_area' = result_geometry
      /\ criteria_results' = Append(criteria_results,
            [name |-> name, geometry |-> result_geometry, description |-> description])
      /\ last_call' = Call(op, ret, pois.pts, ToGeo(combined_buffer), err)
      /\ UNCHANGED << session, center_point, utm_crs, search_boundary, last_result >>

\* the part of both add_*_criterion methods after the buffers are combined:
\* intersect, replace the current area, append the record
StoreResult(op, pois, combined_buffer, name, description, err, ret) ==
  LET result_geometry == ToGeo(combined_buffer) \cap current_search_area
  IN  /\ current_search_area' = result_geometry
      /\ criteria_results' = Append(criteria_results,
            [name |-> name, geometry |-> result_geometry, description |-> description])
      /\ last_call' = Call(op, ret, pois.pts, ToGeo(combined_buffer), err)
      /\ UNCHANGED << session, center_point, utm_crs, search_boundary, last_result >>

\* how a call that got as far as storing its result ends
Outcome(env) == IF env.fault = "report" THEN "error:report" ELSE "applied"

\* an exception in the buffer computation that comes after the assignment
RaiseInCompute_AfterAssignment(op) ==
  /\ last_call' = Call(op, "error:compute", {}, {}, FALSE)
  /\ current_search_area' = {}
  /\ UNCHANGED << session, center_point, utm_crs, search_boundary,
                  criteria_results, last_result >>

\* an exception of to_crs, buffer, union_all or intersection leaves the method
\* before the assignment to current_search_area
RaiseInCompute(op) ==
  /\ last_call' = Call(op, "error:compute", {}, {}, FALSE)
  /\ UNCHANGED << analyzer, last_result >>

\* an early return that comes after the current area was overwritten
SkipCriterion_AfterAssignment(op, err) ==
  /\ last_call' = Call(op, "skipped", {}, {}, err)
  /\ current_search_area' = {}
  /\ UNCHANGED << session, center_point, utm_crs, search_boundary,
                  criteria_results, last_result >>

\* the early return of both methods when the lookup gave nothing
SkipCriterion(op, err) ==
  /\ last_call' = Call(op, "skipped", {}, {}, err)
  /\ UNCHANGED << analyzer, last_result >>

\* add_simple_buffer_criterion that buffers by twice the distance
AddSimpleBufferCriterion_Diameter(poi_type, specific_location, max_distance_miles, criterion_name, env) ==
  LET query_area == SimpleQueryArea(poi_type, specific_location, max_distance_miles)
      pois == GetPois(poi_type, specific_location, query_area, env)
  IN  /\ last_query' = Query(Truthy(poi_type) /\ ~Truthy(specific_location), max_distance_miles * MetersPerMile, query_area)
      /\ IF env.fault = "compute"
         THEN RaiseInCompute("add_simple_buffer_criterion")
         ELSE IF pois.none \/ Cardinality(pois.pts) = 0
         THEN SkipCriterion("add_simple_buffer_criterion",
                            LookupRaised(poi_type, specific_location, env))
         ELSE LET buffer_meters == 2 * max_distance_miles * MetersPerMile
                  buffers == { BufferPoint(ToUtmPoint(p), buffer_meters) : p \in pois.pts }
                  combined_buffer == UNION buffers
              IN  StoreResult("add_simple_buffer_criterion", pois, combined_buffer,
                              NameOr(criterion_name, "Buffer"),
                              [text |-> "miles (straight-line)", n |-> max_distance_miles],
                              LookupRaised(poi_type, specific_location, env),
                              Outcome(env))

\* add_simple_buffer_criterion
AddSimpleBufferCriterion(poi_type, specific_location, max_distance_miles, criterion_name, env) ==
  LET query_area == SimpleQueryArea(poi_type, specific_location, max_distance_miles)
      pois == GetPois(poi_type, specific_location, query_area, env)
  IN  /\ last_query' = Query(Truthy(poi_type) /\ ~Truthy(specific_location), max_distance_miles * MetersPerMile, query_area)
      /\ IF env.fault = "compute"
         THEN RaiseInCompute("add_simple_buffer_criterion")
         ELSE IF pois.none \/ Cardinality(pois.pts) = 0
         THEN SkipCriterion("add_simple_buffer_criterion",
                            LookupRaised(poi_type, specific_location, env))
         ELSE LET buffer_meters == max_distance_miles * MetersPerMile
                  buffers == { BufferPoint(ToUtmPoint(p), buffer_meters) : p \in pois.pts }
                  combined_buffer == UNION buffers
              IN  StoreResult("add_simple_buffer_criterion", pois, combined_buffer,
                              NameOr(criterion_name, "Buffer"),
                              [text |-> "miles (straight-line)", n |-> max_distance_miles],
                              LookupRaised(poi_type, specific_location, env),
                              Outcome(env))

\* speed/adjustment lookups with their .get defaults
SpeedMph(travel_mode) ==
  IF travel_mode \in DOMAIN TRAVEL_SPEEDS
  THEN TRAVEL_SPEEDS[travel_mode] ELSE TRAVEL_SPEEDS["walk"]
Adjustment10(travel_mode) ==
  IF travel_mode \in DOMAIN BUFFER_ADJUSTMENTS
  THEN BUFFER_ADJUSTMENTS[travel_mode] ELSE 12

\* adjusted_distance * 1609.34 of add_travel_time_criterion, in metres:
\* (minutes / 60) * speed_mph / adjustment miles
TravelBufferMeters(max_time_minutes, travel_mode) ==
  (max_time_minutes * SpeedMph(travel_mode) * 10 * MetersPerMile)
     \div (60 * Adjustment10(travel_mode))

\* the query polygon add_travel_time_criterion hands to _get_pois
TravelQueryArea(poi_type, specific_location, max_time_minutes, travel_mode) ==
  IF Truthy(poi_type) /\ ~Truthy(specific_location)
  THEN CreateExpandedQueryArea(TravelBufferMeters(max_time_minutes, travel_mode),
                               current_search_area, search_boundary)
  ELSE current_search_area

\* add_travel_time_criterion
AddTravelTimeCriterion(poi_type, specific_location, max_time_minutes, travel_mode, criterion_name, env) ==
  LET query_area == TravelQueryArea(poi_type, specific_location,
                                    max_time_minutes, travel_mode)
      pois == GetPois(poi_type, specific_location, query_area, env)
  IN  /\ last_query' = Query(Truthy(poi_type) /\ ~Truthy(specific_location), TravelBufferMeters(max_time_minutes, travel_mode), query_area)
      /\ IF env.fault = "compute"
         THEN RaiseInCompute("add_travel_time_criterion")
         ELSE IF pois.none \/ Cardinality(pois.pts) = 0
         THEN SkipCriterion("add_travel_time_criterion",
                            LookupRaised(poi_type, specific_location, env))
         ELSE LET buffer_meters == TravelBufferMeters(max_time_minutes, travel_mode)
                  realistic_buffers ==
                    { CreateRealisticBuffer(ToUtmPoint(p), buffer_meters, travel_mode)
                        : p \in pois.pts }
                  combined_buffer == UNION realistic_buffers
              IN  StoreResult("add_travel_time_criterion", pois, combined_buffer,
                              NameOr(criterion_name, "Travel Time"),
                              [text |-> travel_mode, n |-> max_time_minutes],
                              LookupRaised(poi_type, specific_location, env),
                              Outcome(env))

\* get_current_result: the one-row GeoDataFrame it builds
CurrentResult ==
  [geometry |-> current_search_area,
   criteria_count |-> Len(criteria_results),
   area_sq_miles |-> CalculateAreaSqMiles(current_search_area)]

\* get_current_result that hands the area out and starts over from the boundary
GetCurrentResult_Resets ==
  /\ last_result' = CurrentResult
  /\ last_call' = Call("get_current_result", "ok", {}, {}, FALSE)
  /\ UNCHANGED last_query
  /\ current_search_area' = search_boundary
  /\ UNCHANGED << session, center_point, utm_crs, search_boundary, criteria_results >>

GetCurrentResult ==
  /\ last_result' = CurrentResult
  /\ last_call' = Call("get_current_result", "ok", {}, {}, FALSE)
  /\ UNCHANGED last_query
  /\ UNCHANGED analyzer

(**************** legacy analyzer (distanceFinder/app.py) *******************)
\* the street network ox.graph_from_polygon downloads and the nodes Dijkstra
\* reaches in it: an exception, or a set of nodes inside the stage-1 area
NodeSites == {-1, 1, 3}
NoNetwork == [raised |-> TRUE, nodes |-> {}]
NetworkAnswers(area) ==
  {[raised |-> TRUE, nodes |-> {}]} \cup
  {[raised |-> FALSE, nodes |-> N] : N \in SUBSET { s \in NodeSites : PointIn(s, area) }}

\* MultiPoint(...).convex_hull on the axis: the cells between the outermost nodes
ConvexHull(nodes) ==
  { k \in Cells : (\E a \in nodes : a <= k) /\ (\E b \in nodes : k + 1 <= b) }

\* add_two_stage_location_criterion: buffer first, then the network isochrone,
\* falling back to the stage-1 area
AddTwoStageLocationCriterion(specific_location, max_time_minutes, travel_mode, criterion_name, env, net) ==
  LET pois == GetPois(None, specific_location, current_search_area, env)
  IN  /\ last_query' = Query(FALSE, 0, current_search_area)
      /\ IF ~Truthy(specific_location) \/ pois.none \/ Cardinality(pois.pts) = 0
         THEN SkipCriterion("add_two_stage_location_criterion",
                            LookupRaised(None, specific_location, env))
         ELSE LET buffer_meters ==
                    (max_time_minutes * LEGACY_TRAVEL_SPEEDS[travel_mode]
                       * BUFFER_ADJUSTMENTS[travel_mode] * MetersPerMile) \div (60 * 10)
                  buffer_geom == UNION { BufferPoint(ToUtmPoint(p), buffer_meters)
                                           : p \in pois.pts }
                  stage1_area == ToGeo(buffer_geom) \cap current_search_area
                  network == ~net.raised /\ Cardinality(net.nodes) > 2
                  isochrone == ConvexHull(net.nodes)
                  result_geometry ==
                    IF network THEN isochrone \cap current_search_area ELSE stage1_area
              IN  /\ current_search_area' = result_geometry
                  /\ criteria_results' = Append(criteria_results,
                        [name |-> criterion_name, geometry |-> result_geometry,
                         description |-> [text |-> "two-stage", n |-> max_time_minutes]])
                  /\ last_call' = Call("add_two_stage_location_criterion", "applied",
                                        pois.pts,
                                        IF network THEN isochrone ELSE ToGeo(buffer_geom),
                                        FALSE)
                  /\ UNCHANGED << session, center_point, utm_crs, search_boundary,
                                  last_result >>

(***************************** the ranker **********************************)
\* _calculate_criterion_priority with the type scores the other way round
CalculateCriterionPriority_PoiFirst(criterion) ==
  LET type_score == IF criterion.type = "location" THEN 1 ELSE 0
      mode_score == CASE criterion.mode = "distance" -> 0
                      [] criterion.mode = "walk" -> 1
                      [] criterion.mode = "bike" -> 2
                      [] criterion.mode = "drive" -> 3
                      [] OTHER -> 0
      normalized_value == criterion.value * 312
  IN  << type_score, mode_score, normalized_value >>

\* _calculate_criterion_priority with the mode scores the other way round
CalculateCriterionPriority_ModeReversed(criterion) ==
  LET type_score == IF criterion.type = "location" THEN 0 ELSE 1
      mode_score == CASE criterion.mode = "distance" -> 3
                      [] criterion.mode = "walk" -> 2
                      [] criterion.mode = "bike" -> 1
                      [] criterion.mode = "drive" -> 0
                      [] OTHER -> 0
      normalized_value ==
        IF criterion.mode = "distance" THEN criterion.value * 312
        ELSE IF criterion.mode = "walk" THEN (criterion.value * 3 * 10 * 312) \div (60 * 12)
        ELSE IF criterion.mode = "bike" THEN (criterion.value * 12 * 10 * 312) \div (60 * 13)
        ELSE (criterion.value * 30 * 10 * 312) \div (60 * 15)
  IN  << type_score, mode_score, normalized_value >>

\* _calculate_criterion_priority.  The third component is the normalized
\* value times 312, which keeps (value/60)*3/1.2, (value/60)*12/1.3 and
\* (value/60)*30/1.5 integral: 13, 48 and 104 times the value.
CalculateCriterionPriority(criterion) ==
  LET type_score == IF criterion.type = "location" THEN 0 ELSE 1
      mode_score == CASE criterion.mode = "distance" -> 0
                      [] criterion.mode = "walk" -> 1
                      [] criterion.mode = "bike" -> 2
                      [] criterion.mode = "drive" -> 3
                      [] OTHER -> 0
      normalized_value ==
        IF criterion.mode = "distance" THEN criterion.value * 312
        ELSE IF criterion.mode = "walk" THEN (criterion.value * 3 * 10 * 312) \div (60 * 12)
        ELSE IF criterion.mode = "bike" THEN (criterion.value * 12 * 10 * 312) \div (60 * 13)
        ELSE (criterion.value * 30 * 10 * 312) \div (60 * 15)
  IN  << type_score, mode_score, normalized_value >>

\* Python's tuple comparison a < b on three numbers
TupleLess(a, b) ==
  \/ a[1] < b[1]
  \/ a[1] = b[1] /\ a[2] < b[2]
  \/ a[1] = b[1] /\ a[2] = b[2] /\ a[3] < b[3]

\* sorted(criteria, key=...) is stable: each element goes behind every
\* element already placed whose key is not greater than its own
RECURSIVE InsertByKey(_, _)
InsertByKey(placed, c) ==
  IF placed = << >> THEN << c >>
  ELSE IF TupleLess(CalculateCriterionPriority(c), CalculateCriterionPriority(Head(placed)))
       THEN << c >> \o placed
       ELSE << Head(placed) >> \o InsertByKey(Tail(placed), c)

RECURSIVE SortedByKey(_, _)
SortedByKey(criteria, n) ==
  IF n = 0 THEN << >> ELSE InsertByKey(SortedByKey(criteria, n - 1), criteria[n])

\* reversed(criteria)
RECURSIVE Reversed(_)
Reversed(criteria) ==
  IF criteria = << >> THEN << >>
  ELSE Append(Reversed(Tail(criteria)), Head(criteria))

\* _order_criteria_smart over an unstable sort: ties come out reversed
OrderCriteriaSmart_Unstable(criteria) == SortedByKey(Reversed(criteria), Len(criteria))

\* _order_criteria_smart
OrderCriteriaSmart(criteria) == SortedByKey(criteria, Len(criteria))

\* the list object handed to _order_criteria_smart once it has returned:
\* sorted() builds a new list and leaves its argument as it was
OrderCriteriaSmartInput(criteria) == criteria

(********************* direct use of one analyzer **************************)
\* arguments the callers of the class pass (performance_test.py, the legacy app)
TagChoices == {None, POI_TYPES.School}
LocationChoices == {None, "Duke University"}
MilesChoices == {1, 50}
MinutesChoices == {15, 24}
TravelModeChoices == {"walk", "drive"}

Construct ==
  /\ session = "Uninitialized"
  /\ \E r \in RadiusChoices, a \in CenterAttempts :
       AnalyzerInit(r, a[1], a[2])
  /\ UNCHANGED << calls, router, ranker, parked, realistic_buffer, tripadvisor >>

CallAddSimple ==
  /\ session = "Ready" /\ calls < MaxCalls
  /\ \E t \in TagChoices, l \in LocationChoices, d \in MilesChoices :
       \E env \in EnvFor(t, l, SimpleQueryArea(t, l, d)) :
          AddSimpleBufferCriterion(t, l, d, "criterion", env)
  /\ calls' = calls + 1
  /\ UNCHANGED << router, ranker, parked, realistic_buffer, tripadvisor >>

CallAddTravelTime ==
  /\ session = "Ready" /\ calls < MaxCalls
  /\ \E t \in TagChoices, l \in LocationChoices, n \in MinutesChoices,
        m \in TravelModeChoices :
       \E env \in EnvFor(t, l, TravelQueryArea(t, l, n, m)) :
          AddTravelTimeCriterion(t, l, n, m, "criterion", env)
  /\ calls' = calls + 1
  /\ UNCHANGED << router, ranker, parked, realistic_buffer, tripadvisor >>

CallAddTwoStage ==
  /\ session = "Ready" /\ calls < MaxCalls
  /\ \E l \in LocationChoices, n \in MinutesChoices, m \in TravelModeChoices :
       \E env \in EnvFor(None, l, current_search_area) :
          \* the street network is downloaded only once the location is found
          \E net \in IF GetPois(None, l, current_search_area, env).none
                     THEN {NoNetwork}
                     ELSE NetworkAnswers(current_search_area) :
             AddTwoStageLocationCriterion(l, n, m, "criterion", env, net)
  /\ calls' = calls + 1
  /\ UNCHANGED << router, ranker, parked, realistic_buffer, tripadvisor >>

CallGetCurrentResult ==
  /\ session = "Ready" /\ calls < MaxCalls
  /\ GetCurrentResult
  /\ calls' = calls + 1
  /\ UNCHANGED << router, ranker, parked, realistic_buffer, tripadvisor >>

SessionNext ==
  \/ Construct
  \/ CallAddSimple
  \/ CallAddTravelTime
  \/ CallAddTwoStage
  \/ CallGetCurrentResult

SessionSpec == Init /\ [][SessionNext]_vars

(***************** direct use, with failing geometry calls *****************)
CallAddSimpleFaulty ==
  /\ session = "Ready" /\ calls < MaxCalls
  /\ \E t \in TagChoices, l \in LocationChoices, d \in MilesChoices :
       \E env \in WithFaults(EnvFor(t, l, SimpleQueryArea(t, l, d))) :
          AddSimpleBufferCriterion(t, l, d, "criterion", env)
  /\ calls' = calls + 1
  /\ UNCHANGED << router, ranker, parked, realistic_buffer, tripadvisor >>

CallAddTravelTimeFaulty ==
  /\ session = "Ready" /\ calls < MaxCalls
  /\ \E t \in TagChoices, l \in LocationChoices, n \in MinutesChoices,
        m \in TravelModeChoices :
       \E env \in WithFaults(EnvFor(t, l, TravelQueryArea(t, l, n, m))) :
          AddTravelTimeCriterion(t, l, n, m, "criterion", env)
  /\ calls' = calls + 1
  /\ UNCHANGED << router, ranker, parked, realistic_buffer, tripadvisor >>

FaultNext ==
  \/ Construct
  \/ CallAddSimpleFaulty
  \/ CallAddTravelTimeFaulty

FaultSpec == Init /\ [][FaultNext]_vars

(******************** an analyzer anywhere on the globe ********************)
\* whole degrees of longitude and latitudes of both hemispheres, the poles
\* and the equator among them
Longitudes == -180..180
Latitudes == { -90, -34, -1, 0, 1, 36, 90 }

\* __init__ with a centre that geocodes to any of these coordinates
ConstructAnywhere ==
  /\ session = "Uninitialized"
  /\ \E r \in RadiusChoices, lon \in Longitudes, lat \in Latitudes :
       AnalyzerInit(r, [raised |-> FALSE, pt |-> [x |-> 0, lon |-> lon, lat |-> lat]],
                    [raised |-> TRUE, pt |-> NoPoint])
  /\ UNCHANGED << calls, router, ranker, parked, realistic_buffer, tripadvisor >>

\* get_current_result on that analyzer
ResultAnywhere ==
  /\ session = "Ready" /\ calls < MaxCalls
  /\ GetCurrentResult
  /\ calls' = calls + 1
  /\ UNCHANGED << router, ranker, parked, realistic_buffer, tripadvisor >>

GlobeNext ==
  \/ ConstructAnywhere
  \/ ResultAnywhere

GlobeSpec == Init /\ [][GlobeNext]_vars

(************************ the /analyze handler *****************************)
Crit(t, p, l, m, v) == [type |-> t, poi_type |-> p, location |-> l, mode |-> m, value |-> v]

\* criteria a request may carry; Criterion has no validator, so a POI type
\* without mapping and a location criterion without location get through
CriteriaPool ==
  { Crit("poi", "School", None, "distance", 1),
    Crit("poi", "Park", None, "walk", 2),
    Crit("poi", "Park", None, "drive", 10),
    Crit("location", None, "Duke University", "drive", 15),
    Crit("location", None, "Duke University", "distance", 2),
    Crit("poi", "Casino", None, "distance", 1),
    Crit("location", None, None, "distance", 1),
    Crit("poi", "School", None, "distance", 0) }

RECURSIVE SeqsUpTo(_, _)
SeqsUpTo(S, n) ==
  IF n = 0 THEN { << >> }
  ELSE LET shorter == SeqsUpTo(S, n - 1)
       IN  shorter \cup { Append(q, c) : q \in shorter, c \in S }

Requests ==
  { [center |-> "Durham, NC", radius_miles |-> r, criteria |-> cs]
      : r \in RadiusChoices, cs \in SeqsUpTo(CriteriaPool, MaxCriteria) }

\* requests the schema turns down: a radius below 1 or above 25 miles, and a
\* list of nine criteria
NineCriteria == [i \in 1..9 |-> Crit("poi", "School", None, "distance", 1)]
OutOfRangeRequests ==
  { [center |-> "Durham, NC", radius_miles |-> 0, criteria |-> << >>],
    [center |-> "Durham, NC", radius_miles |-> 26, criteria |-> << >>],
    [center |-> "Durham, NC", radius_miles |-> 2, criteria |-> NineCriteria] }

\* AnalysisRequest without max_length on criteria
AnalysisRequestValid_NoMaxLength(req) ==
  req.radius_miles >= 1 /\ req.radius_miles <= 25

\* the Field constraints of AnalysisRequest: ge=1.0, le=25.0, max_length=8;
\* the framework answers HTTP 422 and does not call the handler otherwise
AnalysisRequestValid(req) ==
  /\ req.radius_miles >= 1 /\ req.radius_miles <= 25
  /\ Len(req.criteria) <= 8

\* POI_TYPES.get(name)
PoiTypesGet(name) == IF name \in DOMAIN POI_TYPES THEN POI_TYPES[name] ELSE None

\* criterion.location[:30]; every location text of the model is shorter
Prefix30(text) == text

\* the arguments of the lookup the loop body makes for one criterion
CriterionQueryArea(c) ==
  IF c.type = "poi"
  THEN SimpleQueryArea(PoiTypesGet(c.poi_type), None, c.value)
  ELSE current_search_area
CriterionEnv(c) ==
  IF c.type = "poi"
  THEN EnvFor(PoiTypesGet(c.poi_type), None, CriterionQueryArea(c))
  ELSE EnvFor(None, c.location, current_search_area)

\* the except clauses with the catch-all first
HttpStatusFor_CatchAll(exception) == 500

\* the except clauses of analyze_location
HttpStatusFor(exception) == IF exception = "ValueError" THEN 400 ELSE 500

\* query_pois (POST /pois) on a well-formed polygon: the HTTP status and
\* total_found; an unmapped type raises ValueError, a provider error is "none found"
QueryPois(poi_type, polygon, feat) ==
  LET poi_tags == PoiTypesGet(poi_type)
  IN  IF ~Truthy(poi_tags)
      THEN [status |-> HttpStatusFor("ValueError"), total_found |-> 0]
      ELSE IF feat.raised
      THEN [status |-> 200, total_found |-> 0]
      ELSE [status |-> 200, total_found |-> Cardinality(feat.feats)]

\* LocationAnalyzer.query_pois_in_polygon: the exception it ends with, or the
\* number of POIs it returns
QueryPoisInPolygon(polygon, poi_type_key, feat) ==
  LET poi_tags == PoiTypesGet(poi_type_key)
  IN  IF ~Truthy(poi_tags)
      THEN [raised |-> "ValueError", found |-> 0]
      ELSE IF feat.raised
      THEN [raised |-> None, found |-> 0]
      ELSE [raised |-> None, found |-> Cardinality(feat.feats)]

\* analyze_location up to the loop: build the analyzer, order the criteria;
\* the ValueError of __init__ becomes HTTP 400
AnalyzeStartFrom(requests) ==
  /\ pc = "idle"
  /\ \E req \in requests, a \in CenterAttempts :
       /\ request' = req
       /\ IF ~AnalysisRequestValid(req)
          THEN /\ pc' = "done"
               /\ response' = [NoResponse EXCEPT !.status = 422]
               /\ UNCHANGED << analyzer, observed, ordered_criteria >>
          ELSE /\ AnalyzerInit(req.radius_miles, a[1], a[2])
               /\ IF a[1].raised /\ a[2].raised
                  THEN /\ pc' = "done"
                       /\ response' = [NoResponse EXCEPT
                                         !.status = HttpStatusFor("ValueError")]
                       /\ UNCHANGED ordered_criteria
                  ELSE /\ pc' = "loop"
                       /\ ordered_criteria' = OrderCriteriaSmart(req.criteria)
                       /\ UNCHANGED response
  /\ UNCHANGED << idx, log, calls, ranker, parked, realistic_buffer, tripadvisor >>

AnalyzeStart == AnalyzeStartFrom(Requests \cup OutOfRangeRequests)

\* one iteration of "for criterion in ordered_criteria"
AnalyzeApply ==
  /\ pc = "loop" /\ idx < Len(ordered_criteria)
  /\ LET criterion == ordered_criteria[idx + 1]
     IN  IF criterion.type = "poi"
         THEN /\ \E env \in CriterionEnv(criterion) :
                   AddSimpleBufferCriterion(PoiTypesGet(criterion.poi_type), None,
                                            criterion.value, criterion.poi_type, env)
              /\ pc' = "loop" /\ idx' = idx + 1 /\ UNCHANGED response
         ELSE IF criterion.location = None
         THEN \* criterion.location[:30] on None: TypeError, caught as HTTP 500
              /\ last_call' = Call("analyze_location", "TypeError", {}, {}, FALSE)
              /\ UNCHANGED << analyzer, last_result, last_query >>
              /\ pc' = "done" /\ idx' = idx
              /\ response' = [NoResponse EXCEPT !.status = HttpStatusFor("TypeError")]
         ELSE IF criterion.mode = "distance"
         THEN /\ \E env \in CriterionEnv(criterion) :
                   AddSimpleBufferCriterion(None, criterion.location, criterion.value,
                                            Prefix30(criterion.location), env)
              /\ pc' = "loop" /\ idx' = idx + 1 /\ UNCHANGED response
         ELSE /\ \E env \in CriterionEnv(criterion) :
                   AddTravelTimeCriterion(None, criterion.location, criterion.value,
                                          criterion.mode, Prefix30(criterion.location), env)
              /\ pc' = "loop" /\ idx' = idx + 1 /\ UNCHANGED response
  /\ log' = Append(log, last_call')
  /\ UNCHANGED << request, ordered_criteria, calls, ranker, parked, realistic_buffer, tripadvisor >>

\* after the loop: get_current_result and the AnalysisResponse
AnalyzeRespond ==
  /\ pc = "loop" /\ idx = Len(ordered_criteria)
  /\ GetCurrentResult
  /\ response' =
       [status |-> 200,
        criteria_applied |->
          [i \in 1..Len(criteria_results) |->
             [name |-> criteria_results[i].name,
              description |-> criteria_results[i].description,
              area_sq_miles |-> CalculateAreaSqMiles(criteria_results[i].geometry)]],
        initial_area_sq_miles |-> CalculateAreaSqMiles(search_boundary),
        final_area_sq_miles |-> CurrentResult.area_sq_miles,
        geometry |-> CurrentResult.geometry,
        criteria_count |-> CurrentResult.criteria_count]
  /\ pc' = "done"
  /\ UNCHANGED << request, ordered_criteria, idx, log, calls, ranker, parked, realistic_buffer, tripadvisor >>

Next ==
  \/ AnalyzeStart
  \/ AnalyzeApply
  \/ AnalyzeRespond

Spec == Init /\ [][Next]_vars

(********************** two requests served at once ************************)
\* the two requests of the concurrent specification may each be any of these
ConcurrentRequests ==
  { [center |-> "Durham, NC", radius_miles |-> 2,
     criteria |-> << Crit("poi", "School", None, "distance", 1) >>],
    [center |-> "Durham, NC", radius_miles |-> MaxRadius,
     criteria |-> << Crit("location", None, "Duke University", "distance", 2),
                     Crit("poi", "Park", None, "walk", 2) >>] }

\* the router-side locals of the running request are exchanged, but the
\* analyzer is one object shared by both requests
Switch_SharedAnalyzer ==
  /\ parked' = Frame
  /\ last_call' = parked.last_call
  /\ last_result' = parked.last_result
  /\ last_query' = parked.last_query
  /\ pc' = parked.pc
  /\ request' = parked.request
  /\ ordered_criteria' = parked.ordered_criteria
  /\ idx' = parked.idx
  /\ log' = parked.log
  /\ response' = parked.response
  /\ UNCHANGED << analyzer, calls, ranker, tripadvisor, realistic_buffer >>

\* the server turns from one request to the other between two steps: every
\* request is served by its own call of analyze_location, whose locals (the
\* analyzer it constructed among them) are set aside and taken up again
Switch ==
  /\ parked' = Frame
  /\ session' = parked.session
  /\ center_point' = parked.center_point
  /\ utm_crs' = parked.utm_crs
  /\ search_boundary' = parked.search_boundary
  /\ current_search_area' = parked.current_search_area
  /\ criteria_results' = parked.criteria_results
  /\ last_call' = parked.last_call
  /\ last_result' = parked.last_result
  /\ last_query' = parked.last_query
  /\ pc' = parked.pc
  /\ request' = parked.request
  /\ ordered_criteria' = parked.ordered_criteria
  /\ idx' = parked.idx
  /\ log' = parked.log
  /\ response' = parked.response
  /\ UNCHANGED << calls, ranker, tripadvisor, realistic_buffer >>

AnalyzeStartConcurrent == AnalyzeStartFrom(ConcurrentRequests)

ConcurrentNext ==
  \/ AnalyzeStartConcurrent
  \/ AnalyzeApply
  \/ AnalyzeRespond
  \/ Switch

ConcurrentSpec == Init /\ [][ConcurrentNext]_vars

(************************ the TripAdvisor client ***************************)
\* settings.tripadvisor_monthly_limit
tripadvisor_monthly_limit == 5000

\* cache keys of the POIs asked about (normalized name and rounded coordinate)
CacheKeys == { "cafe", "zoo" }
\* what monthly_usage.json may hold for the month when the client starts
UsageChoices == { tripadvisor_monthly_limit - 4, tripadvisor_monthly_limit - 1,
                  tripadvisor_monthly_limit }
\* locations a premium search may come back with
MaxLocations == 2

\* the cache files earlier runs may have left: none, or the data of a found or
\* not found POI written seven or eight days ago
CacheFiles ==
  { Absent } \cup
  { [data |-> d, age |-> a] : d \in { "found", "not found" },
                              a \in { 7, 8 } }

\* get_tripadvisor_client: the singleton is built on first use; the key may
\* be missing from the settings, and the usage file and the cache directory
\* are whatever earlier runs left
CreateClient ==
  /\ ~tripadvisor.created
  /\ \E e \in BOOLEAN, u \in UsageChoices, c \in [CacheKeys -> CacheFiles] :
       tripadvisor' = [NoClient EXCEPT !.created = TRUE, !.enabled = e, !.usage = u,
                                       !.cache = c]
  /\ UNCHANGED << analyzer, observed, calls, router, ranker, parked, realistic_buffer >>

\* is_limit_reached
IsLimitReached(usage) == usage >= tripadvisor_monthly_limit

\* _make_request, once for every entry of outcomes: the request is sent, and
\* _increment_usage counts it when the answer is a success (TRUE)
RECURSIVE MakeRequests(_, _)
MakeRequests(st, outcomes) ==
  IF outcomes = << >> THEN st
  ELSE MakeRequests(
         [usage |-> st.usage + (IF Head(outcomes) THEN 1 ELSE 0),
          sent |-> st.sent + 1,
          over |-> st.over + (IF IsLimitReached(st.usage) THEN 1 ELSE 0)],
         Tail(outcomes))

Outcomes(n) == [1..n -> BOOLEAN]
NoneSent == [usage |-> tripadvisor.usage, sent |-> 0, over |-> 0]

Returned(op, result, st) ==
  [tripadvisor EXCEPT !.op = op, !.key = "none", !.result = result, !.cached_at = FALSE,
                      !.usage = st.usage, !.sent = st.sent, !.over = st.over]

\* _load_from_cache: the file, or None (here Absent) when there is none or
\* its age in whole days is above 7
LoadFromCache(file) ==
  IF file.data = "absent" THEN Absent
  ELSE IF file.age > 7 THEN Absent
  ELSE file

\* _save_to_cache: the file written now; the dict handed in gets its
\* cached_at entry
SaveToCache(data) == [data |-> data, age |-> 0]

\* enrich_poi: the checks, the cache, the search, then details and photos
EnrichPoi ==
  /\ tripadvisor.created
  /\ \E key \in CacheKeys, matched \in BOOLEAN, o \in Outcomes(3) :
       IF ~tripadvisor.enabled
       THEN tripadvisor' =
              [Returned("enrich_poi", "not configured", NoneSent) EXCEPT !.key = key]
       ELSE IF IsLimitReached(tripadvisor.usage)
       THEN tripadvisor' =
              [Returned("enrich_poi", "limit reached", NoneSent) EXCEPT !.key = key]
       ELSE LET cached == LoadFromCache(tripadvisor.cache[key])
            IN  IF cached # Absent
                THEN \* the result is the cached dict without "cached_at"
                     tripadvisor' =
                       [Returned("enrich_poi", cached.data, NoneSent) EXCEPT !.key = key]
                ELSE LET search == MakeRequests(NoneSent, << o[1] >>)
                         location == o[1] /\ matched
                     IN  IF ~location
                         THEN tripadvisor' =
                                [Returned("enrich_poi", "not found", search)
                                   EXCEPT !.key = key, !.cached_at = TRUE,
                                          !.cache[key] = SaveToCache("not found")]
                         ELSE tripadvisor' =
                                [Returned("enrich_poi", "found",
                                          MakeRequests(search, << o[2], o[3] >>))
                                   EXCEPT !.key = key, !.cached_at = TRUE,
                                          !.cache[key] = SaveToCache("found")]
  /\ UNCHANGED << analyzer, observed, calls, router, ranker, parked, realistic_buffer >>

\* TripAdvisorClient.nearby_search_batch is not among the sources; from its
\* caller: one search request per centroid searched, and the locations found
NearbySearchBatch(st, outcomes) == MakeRequests(st, outcomes)

\* premium_search: the checks, the batch search, then details and photos of
\* every location, one request each
PremiumSearch ==
  /\ tripadvisor.created
  /\ \E centroids \in 0..2, n \in 0..MaxLocations :
       \E d \in Outcomes(centroids), o \in Outcomes(2 * n) :
          IF ~tripadvisor.enabled
          THEN tripadvisor' = Returned("premium_search", "400", NoneSent)
          ELSE IF IsLimitReached(tripadvisor.usage)
          THEN tripadvisor' = Returned("premium_search", "429", NoneSent)
          ELSE IF centroids = 0
          THEN tripadvisor' = Returned("premium_search", "400", NoneSent)
          ELSE LET discovery == NearbySearchBatch(NoneSent, d)
                   found == IF \E i \in 1..centroids : d[i] THEN n ELSE 0
               IN  tripadvisor' =
                     Returned("premium_search", "200",
                              MakeRequests(discovery, SubSeq(o, 1, 2 * found)))
  /\ UNCHANGED << analyzer, observed, calls, router, ranker, parked, realistic_buffer >>

EnrichNext ==
  \/ CreateClient
  \/ EnrichPoi
  \/ PremiumSearch

EnrichSpec == Init /\ [][EnrichNext]_vars

(******************* _create_realistic_buffer alone ************************)
MaxMinutes == 40      \* longest travel time handed to add_travel_time_criterion

\* the vertices _create_realistic_buffer computes, as distances from the centroid
RealisticVertices(distance_meters, travel_mode) ==
  [distance_meters |-> distance_meters, travel_mode |-> travel_mode,
   radii |-> [v \in 1..NumVertices |-> VertexRadius(v - 1, distance_meters, travel_mode)]]

\* the call add_travel_time_criterion makes for a source point: the base
\* distance is that of max_time_minutes in the mode
CreateRealisticBufferCall ==
  /\ \E n \in 1..MaxMinutes, travel_mode \in { "walk", "bike", "drive" } :
       realistic_buffer' = RealisticVertices(TravelBufferMeters(n, travel_mode), travel_mode)
  /\ UNCHANGED << analyzer, observed, calls, router, ranker, parked, tripadvisor >>

BufferNext ==
  \/ CreateRealisticBufferCall

BufferSpec == Init /\ [][BufferNext]_vars

(***************************** ranker alone ********************************)
RankCriteria ==
  { Crit(t, IF t = "poi" THEN "School" ELSE None,
            IF t = "poi" THEN None ELSE "Duke University", m, v)
      : t \in {"poi", "location"}, m \in Modes, v \in {1, 24} }
  \cup { Crit("poi", "Park", None, "distance", 1) }

RankCall ==
  /\ rank_in = << >> /\ rank_out = << >>
  /\ \E criteria \in SeqsUpTo(RankCriteria, MaxRankLen) :
       /\ rank_in' = criteria
       /\ rank_out' = OrderCriteriaSmart(criteria)
       /\ rank_list' = OrderCriteriaSmartInput(criteria)
  /\ UNCHANGED << analyzer, observed, calls, router, parked, realistic_buffer, tripadvisor, rank_rerun >>

\* the same list object handed to the ranker a second time
RankAgain ==
  /\ rank_in # << >> /\ ~rank_rerun.done
  /\ rank_rerun' = [done |-> TRUE, out |-> OrderCriteriaSmart(rank_list)]
  /\ rank_list' = OrderCriteriaSmartInput(rank_list)
  /\ UNCHANGED << analyzer, observed, calls, router, parked, realistic_buffer, tripadvisor, rank_in, rank_out >>

RankNext ==
  \/ RankCall
  \/ RankAgain

RankSpec == Init /\ [][RankNext]_vars

(******************************* claims ************************************)
ApplyOps == { "add_simple_buffer_criterion", "add_travel_time_criterion",
              "add_two_stage_location_criterion" }

\* C1 (containment): once the analyzer is constructed, and after any sequence
\* of criterion calls, applied or skipped, current_search_area is a subset
\* of search_boundary, cell by cell.
C1_Containment ==
  session = "Ready" => current_search_area \subseteq search_boundary

\* a criterion whose raw buffer reaches beyond the boundary has been applied
C1_Witness ==
  /\ session = "Ready" /\ last_call.ret = "applied"
  /\ ~(last_call.raw \subseteq search_boundary)
  /\ current_search_area # {} /\ current_search_area # search_boundary

\* C2 (monotonicity): no criterion call makes the planar area of
\* current_search_area larger; the area stays the same when the criterion is
\* skipped and when its buffer already contains the whole current area.
C2_AreaNeverGrows ==
  [][ (session = "Ready" /\ session' = "Ready") =>
        /\ CalculateAreaSqMiles(current_search_area')
             <= CalculateAreaSqMiles(current_search_area)
        /\ ( \/ last_call'.ret = "skipped"
             \/ last_call'.ret = "applied"
                  /\ current_search_area \subseteq last_call'.raw )
           => CalculateAreaSqMiles(current_search_area')
                = CalculateAreaSqMiles(current_search_area) ]_vars

\* two criteria were applied and each of them made the area strictly smaller
C2_Witness ==
  /\ Len(criteria_results) = 2 /\ last_call.ret = "applied"
  /\ CalculateAreaSqMiles(current_search_area) < CalculateAreaSqMiles(last_call.before)
  /\ CalculateAreaSqMiles(last_call.before) < CalculateAreaSqMiles(search_boundary)
  /\ current_search_area # {}

\* C3 (skip): a criterion call whose lookup gives no source point (None or an
\* empty frame) returns without an exception and leaves current_search_area
\* and criteria_results as they were; the analyzer stays Ready.
C3_SkipLeavesState ==
  [][ (last_call'.op \in ApplyOps /\ last_call'.pts = {}) =>
        /\ last_call'.ret = "skipped"
        /\ current_search_area' = current_search_area
        /\ criteria_results' = criteria_results
        /\ session' = "Ready" ]_vars

\* a criterion was applied by the call that followed a skipped one
C3_Witness ==
  /\ last_call.ret = "applied" /\ last_call.prev[2] = "skipped"
  /\ last_call.prev[1] \in ApplyOps
  /\ Len(criteria_results) = 1 /\ current_search_area # {}

\* the radius spec section 4.5 gives a criterion, in metres: the value in
\* miles for distance mode, (value/60) * speed / adjustment miles otherwise
EffectiveRadiusMeters(c) ==
  IF c.mode = "distance" THEN c.value * MetersPerMile
  ELSE (c.value * TRAVEL_SPEEDS[c.mode] * 10 * MetersPerMile)
          \div (60 * BUFFER_ADJUSTMENTS[c.mode])

\* cell k lies within r metres of the point at mile mark p
WithinMeters(k, p, r) ==
  /\ p * MetersPerMile - r <= k * MetersPerMile
  /\ (k + 1) * MetersPerMile <= p * MetersPerMile + r

\* the answer of a request that ran to the end
Answered == pc = "done" /\ response.status = 200

\* C4 as stated: at the end of a session every point of the final area lies
\* inside the boundary and, for each submitted criterion, within that
\* criterion's buffer distance of one of its source points.
C4_AllSubmittedSatisfied ==
  Answered =>
    /\ response.geometry \subseteq search_boundary
    /\ \A i \in 1..Len(ordered_criteria) : \A k \in response.geometry :
         \E p \in log[i].pts :
            WithinMeters(k, p, EffectiveRadiusMeters(ordered_criteria[i]))

\* the buffer the handler has built for criterion c around source point p:
\* a disk of value miles for a POI-type or distance-mode criterion, the
\* anisotropic polygon for a travel-time criterion on a named location
InCriterionBuffer(k, c, p) ==
  IF c.type = "poi" \/ c.mode = "distance"
  THEN WithinMeters(k, p, c.value * MetersPerMile)
  ELSE k * MetersPerMile \in
         CreateRealisticBuffer(ToUtmPoint(p), EffectiveRadiusMeters(c), c.mode)

\* C4 as amended: at the end of a session every point of the final area lies
\* inside the boundary and, for each criterion that was applied, inside the
\* buffer built for it around one of its source points; a skipped criterion
\* constrains nothing.
C4_AllAppliedSatisfied ==
  Answered =>
    /\ response.geometry \subseteq search_boundary
    /\ \A i \in 1..Len(ordered_criteria) :
         log[i].ret = "applied" =>
           \A k \in response.geometry :
             \E p \in log[i].pts : InCriterionBuffer(k, ordered_criteria[i], p)

\* two criteria were applied and a part of the boundary is left
C4_Witness ==
  /\ Answered /\ Len(log) = 2
  /\ log[1].ret = "applied" /\ log[2].ret = "applied"
  /\ response.geometry # {} /\ response.geometry # search_boundary

\* C5 (provider error): a loop iteration whose feature query or geocoding
\* ends in an exception skips the criterion: nothing of the analyzer changes,
\* no HTTP error is produced and the loop goes on to the next criterion.
C5_ProviderErrorIsSkip ==
  [][ (pc = "loop" /\ last_call'.op \in ApplyOps /\ last_call'.err) =>
        /\ last_call'.ret = "skipped"
        /\ analyzer' = analyzer
        /\ pc' = "loop" /\ idx' = idx + 1
        /\ response' = response ]_vars

\* a criterion was applied after the lookup of an earlier one had raised
C5_Witness ==
  /\ Answered
  /\ \E i \in 1..Len(log) : \E j \in 1..Len(log) :
       /\ i < j
       /\ log[i].err /\ log[i].ret = "skipped"
       /\ log[j].ret = "applied"

\* C6 (centre not found): when both geocoding attempts of the centre raise,
\* __init__ raises ValueError, the handler answers HTTP 400, no criterion is
\* applied, and the session is never Ready afterwards.
C6_GeocodeErrorIs400 ==
  /\ [] ( (last_call.op = "__init__" /\ last_call.err) =>
            /\ last_call.ret = "ValueError"
            /\ session = "Failed"
            /\ pc = "done" /\ response.status = 400
            /\ criteria_results = << >> /\ log = << >>
            /\ current_search_area = {} )
  /\ [][ session = "Failed" => session' = "Failed" ]_vars

\* the centre of a request with criteria could not be geocoded
C6_Witness ==
  /\ session = "Failed" /\ response.status = 400
  /\ Len(request.criteria) > 0

\* the cells of the disk of r miles around the point at mile mark x
Disk(x, r) == { k \in Cells : x - r <= k /\ k + 1 <= x + r }

\* C7 (initial state): right after a successful __init__ the current area is
\* the boundary, the disk of max_radius_miles around the centre, and no
\* criterion is recorded; a request without criteria is answered with the
\* boundary, an empty criteria_applied and criteria_count 0.
C7_InitialAreaIsBoundary ==
  /\ (last_call.op = "__init__" /\ last_call.ret = "ok") =>
        /\ current_search_area = search_boundary
        /\ search_boundary = Disk(center_point.x, request.radius_miles)
        /\ criteria_results = << >>
  /\ (Answered /\ request.criteria = << >>) =>
        /\ response.geometry = search_boundary
        /\ response.criteria_applied = << >>
        /\ response.criteria_count = 0
        /\ response.final_area_sq_miles = response.initial_area_sq_miles

\* a request without criteria was answered
C7_Witness ==
  /\ Answered /\ request.criteria = << >>
  /\ response.geometry # {} /\ response.final_area_sq_miles > 0

\* C8 (empty intersection): a criterion with at least one source point whose
\* raw buffer misses the current area is applied all the same: no exception,
\* the current area becomes empty and one record with that empty geometry,
\* of area 0, is appended.
C8_EmptyIntersectionStored ==
  [][ ( /\ last_call'.op \in ApplyOps
        /\ last_call'.pts # {}
        /\ last_call'.raw \cap current_search_area = {} ) =>
        /\ last_call'.ret = "applied"
        /\ session' = "Ready"
        /\ current_search_area' = {}
        /\ Len(criteria_results') = Len(criteria_results) + 1
        /\ SubSeq(criteria_results', 1, Len(criteria_results)) = criteria_results
        /\ criteria_results'[Len(criteria_results')].geometry = {}
        /\ CalculateAreaSqMiles(criteria_results'[Len(criteria_results')].geometry) = 0
     ]_vars

\* a buffer that misses a non-empty current area was applied
C8_Witness ==
  /\ session = "Ready" /\ last_call.op \in ApplyOps
  /\ last_call.pts # {} /\ last_call.raw # {} /\ last_call.before # {}
  /\ last_call.raw \cap last_call.before = {}
  /\ current_search_area = {}

\* C9 (result is read-only): get_current_result changes no field of the
\* analyzer, returns the current area with its area and the number of
\* records, and returns the same again when no criterion call came between.
C9_ResultReadOnly ==
  [][ last_call'.op = "get_current_result" =>
        /\ analyzer' = analyzer
        /\ last_result'.geometry = current_search_area
        /\ last_result'.criteria_count = Len(criteria_results)
        /\ (last_call.op = "get_current_result" => last_result' = last_result)
     ]_vars

\* get_current_result was called twice in a row
C9_Witness ==
  /\ last_call.op = "get_current_result"
  /\ last_call.prev[1] = "get_current_result"
  /\ last_result.geometry # {}

\* the sort key of spec section 4.5, times 312 in its third component
RankKey(c) ==
  << IF c.type = "location" THEN 0 ELSE 1,
     CASE c.mode = "distance" -> 0 [] c.mode = "walk" -> 1
       [] c.mode = "bike" -> 2 [] c.mode = "drive" -> 3,
     IF c.mode = "distance" THEN c.value * 312
     ELSE (c.value * TRAVEL_SPEEDS[c.mode] * 10 * 312)
             \div (60 * BUFFER_ADJUSTMENTS[c.mode]) >>

LexLeq(a, b) ==
  \/ a[1] < b[1]
  \/ a[1] = b[1] /\ a[2] < b[2]
  \/ a[1] = b[1] /\ a[2] = b[2] /\ a[3] <= b[3]

Occurrences(q, c) == Cardinality({ i \in 1..Len(q) : q[i] = c })

\* C10 (ranker): the list _order_criteria_smart returns is a permutation of
\* its input in which every criterion's key (type_rank, mode_rank,
\* normalized_radius_miles) is lexicographically at most the key of the next.
C10_RankedAscending ==
  /\ Len(rank_out) = Len(rank_in)
  /\ \A i \in 1..Len(rank_in) :
       Occurrences(rank_out, rank_in[i]) = Occurrences(rank_in, rank_in[i])
  /\ \A i \in 1..(Len(rank_out) - 1) :
       LexLeq(RankKey(rank_out[i]), RankKey(rank_out[i + 1]))

\* a list of three or more came back in another order
C10_Witness ==
  /\ Len(rank_in) >= 3 /\ rank_out # rank_in
  /\ RankKey(rank_out[1]) # RankKey(rank_out[Len(rank_out)])

\* the criteria of a list that carry the key k, in the order of the list
WithKey(q, k) == SelectSeq(q, LAMBDA c : RankKey(c) = k)

\* C11 (ranker, purity and stability): _order_criteria_smart leaves the list
\* it was given as it was, a second run on that list returns the same order,
\* and criteria with equal sort keys come out in the relative order they had
\* in the input.
C11_RankerPureAndStable ==
  /\ rank_list = rank_in
  /\ (rank_rerun.done => rank_rerun.out = rank_out)
  /\ \A i \in 1..Len(rank_in) :
       WithKey(rank_out, RankKey(rank_in[i])) = WithKey(rank_in, RankKey(rank_in[i]))

\* two different criteria with one key were ranked, twice, behind a third
\* criterion that was submitted after them
C11_Witness ==
  /\ rank_rerun.done
  /\ rank_out # rank_in
  /\ \E i \in 1..Len(rank_in) : \E j \in 1..Len(rank_in) :
       /\ i < j
       /\ rank_in[i] # rank_in[j]
       /\ RankKey(rank_in[i]) = RankKey(rank_in[j])

\* the position in criteria_results of the record of loop iteration i
AppliedIndex(i) == Cardinality({ k \in 1..i : log[k].ret = "applied" })

\* the name and description analyze_location hands over for a criterion
NameOf(c) == IF c.type = "poi" THEN c.poi_type ELSE Prefix30(c.location)
DescriptionTextOf(c) ==
  IF c.type = "poi" \/ c.mode = "distance" THEN "miles (straight-line)" ELSE c.mode

\* criterion i of the ranked list goes before criterion j: in the list, in
\* the order of application and, when both were applied, in criteria_applied
GoesBefore(i, j) ==
  /\ i < j
  /\ (j <= Len(log) => i <= Len(log))
  /\ ( (response.status = 200 /\ log[i].ret = "applied" /\ log[j].ret = "applied") =>
         /\ AppliedIndex(i) < AppliedIndex(j)
         /\ response.criteria_applied[AppliedIndex(i)].name = NameOf(ordered_criteria[i])
         /\ response.criteria_applied[AppliedIndex(i)].description.text
              = DescriptionTextOf(ordered_criteria[i])
         /\ response.criteria_applied[AppliedIndex(j)].name = NameOf(ordered_criteria[j]) )

\* C12 as stated: a straight-line-distance criterion goes before a
\* drive-mode criterion of the same request, whatever the kind of each.
C12_DistanceBeforeDrive ==
  \A i \in 1..Len(ordered_criteria) : \A j \in 1..Len(ordered_criteria) :
     (ordered_criteria[i].mode = "distance" /\ ordered_criteria[j].mode = "drive")
       => GoesBefore(i, j)

\* C12 (distance before drive, amended): a straight-line-distance criterion
\* goes before a drive-mode criterion of the same request, is applied first
\* and precedes it in criteria_applied, unless the distance criterion is of
\* POI type and the drive criterion names a specific location: the kind is
\* the first component of the sort key, so that location criterion goes first.
C12_DistanceBeforeDriveOfKind ==
  \A i \in 1..Len(ordered_criteria) : \A j \in 1..Len(ordered_criteria) :
     LET d == ordered_criteria[i]
         t == ordered_criteria[j]
     IN  (d.mode = "distance" /\ t.mode = "drive") =>
           IF d.type = "poi" /\ t.type = "location"
           THEN GoesBefore(j, i)
           ELSE GoesBefore(i, j)

\* a drive criterion submitted ahead of a distance criterion of its kind;
\* both were applied and the response lists the distance criterion first
C12_Witness ==
  /\ response.status = 200
  /\ Len(request.criteria) = 2
  /\ request.criteria[1].mode = "drive" /\ request.criteria[2].mode = "distance"
  /\ request.criteria[1].type = request.criteria[2].type
  /\ Len(response.criteria_applied) = 2
  /\ response.criteria_applied[1].description.text = "miles (straight-line)"
  /\ ordered_criteria[1] = request.criteria[2]

\* the loop iterations that applied their criterion, in order
AppliedIterations == { i \in 1..Len(log) : log[i].ret = "applied" }

\* C13 (criteria_applied): the criteria_applied list of a response holds one
\* entry for each criterion that was applied and none for a skipped one, in
\* the order of application: entry number k is the k-th applied criterion of
\* the ranked list, with its name, description and area.
C13_AppliedListInRankedOrder ==
  response.status = 200 =>
    /\ Len(log) = Len(ordered_criteria)
    /\ Len(response.criteria_applied) = Cardinality(AppliedIterations)
    /\ \A i \in AppliedIterations :
         LET entry == response.criteria_applied[AppliedIndex(i)]
             c == ordered_criteria[i]
         IN  /\ entry.name = NameOf(c)
             /\ entry.description.text = DescriptionTextOf(c)
             /\ entry.description.n = c.value
             /\ entry.area_sq_miles =
                  CalculateAreaSqMiles(criteria_results[AppliedIndex(i)].geometry)
             /\ criteria_results[AppliedIndex(i)].geometry \subseteq log[i].raw
             /\ criteria_results[AppliedIndex(i)].geometry \subseteq log[i].before

\* two criteria of different names were applied in the ranked order, which is
\* the reverse of the order they were submitted in
C13_Witness ==
  /\ response.status = 200
  /\ Len(request.criteria) = 2
  /\ Len(response.criteria_applied) = 2
  /\ response.criteria_applied[1].name = NameOf(request.criteria[2])
  /\ response.criteria_applied[2].name = NameOf(request.criteria[1])
  /\ NameOf(request.criteria[1]) # NameOf(request.criteria[2])

\* the cells at most `miles` miles away from a cell of the geometry
Dilation(geom, miles) ==
  { c \in (Lo - miles)..(Hi + miles) :
      \E b \in geom : c - b <= miles /\ b - c <= miles }

\* C14 (expansion cap): whatever expansion is asked for, the polygon
\* _create_expanded_query_area returns lies within MAX_QUERY_EXPANSION_MILES
\* of the current search area and inside the search boundary.
C14_ExpansionCapped ==
  last_query.expanded =>
    /\ last_query.area \subseteq Dilation(last_query.current, MAX_QUERY_EXPANSION_MILES)
    /\ last_query.area \subseteq search_boundary

\* an expansion of 50 miles was asked for around an area that has boundary
\* left more than five miles away; the query area grew, but not to the boundary
C14_Witness ==
  /\ last_query.expanded
  /\ last_query.expansion_m = 50 * MetersPerMile
  /\ last_query.current # {}
  /\ ~(search_boundary \subseteq Dilation(last_query.current, MAX_QUERY_EXPANSION_MILES))
  /\ last_query.area # last_query.current
  /\ last_query.area # search_boundary

\* the invariant of spec section 3 on one criterion
WellFormed(c) ==
  /\ (c.type = "poi" => c.poi_type # None /\ c.location = None)
  /\ (c.type = "location" => c.location # None /\ c.poi_type = None)
  /\ c.value > 0

\* C15 (criterion invariant): every criterion the loop hands to one of the
\* analyzer's methods has exactly the field of its kind set and a value above
\* 0, and a request with a criterion that is not so is turned down (no
\* success response) without any criterion having been handed over.
C15_OnlyWellFormedApplied ==
  /\ \A i \in 1..Len(log) :
       log[i].op \in ApplyOps => WellFormed(ordered_criteria[i])
  /\ ( (\E i \in 1..Len(request.criteria) : ~WellFormed(request.criteria[i])) =>
         /\ \A i \in 1..Len(log) : log[i].op \notin ApplyOps
         /\ (pc = "done" => response.status # 200) )

\* the POI type names a client may send
PoiTypeNames == { "School", "Park", "Casino" }
Unmapped(name) == PoiTypesGet(name) = None

\* C16 (unknown POI type): a POI type without tag mapping makes the
\* operation fail as a client-input error: the analysis ends with HTTP 400
\* and the criterion is never skipped like one without features, and the two
\* POI-listing operations answer HTTP 400 and raise ValueError.
C16_UnknownPoiTypeIs400 ==
  /\ \A i \in 1..Len(log) :
       (ordered_criteria[i].type = "poi" /\ Unmapped(ordered_criteria[i].poi_type))
         => log[i].ret \notin { "skipped", "applied" }
  /\ ( (\E i \in 1..Len(ordered_criteria) :
           ordered_criteria[i].type = "poi" /\ Unmapped(ordered_criteria[i].poi_type))
         => (pc = "done" => response.status = 400) )
  /\ \A name \in PoiTypeNames : \A feat \in FeatureAnswers(search_boundary) :
       Unmapped(name) =>
         /\ QueryPois(name, search_boundary, feat).status = 400
         /\ QueryPoisInPolygon(search_boundary, name, feat).raised = "ValueError"

\* C17 (request limits): an analyzer exists only for a request whose radius is
\* within 1..25 miles and whose criteria list has at most 8 entries; any other
\* request is answered without one, and criteria_results never holds more
\* than 8 records.
C17_OnlyValidRequestsGetSession ==
  /\ ( session # "Uninitialized" =>
         /\ request.radius_miles >= 1 /\ request.radius_miles <= 25
         /\ Len(request.criteria) <= 8 )
  /\ ( (pc = "done" /\ (request.radius_miles < 1 \/ request.radius_miles > 25
                          \/ Len(request.criteria) > 8)) =>
         /\ response.status = 422
         /\ session = "Uninitialized" /\ last_call = NoCall /\ log = << >> )
  /\ Len(criteria_results) <= 8
  /\ Len(criteria_results) <= Len(request.criteria)

\* a request with nine criteria was turned down
C17_Witness ==
  /\ pc = "done"
  /\ Len(request.criteria) = 9
  /\ response.status = 422
  /\ session = "Uninitialized"

\* the area an apply leaves behind, from what the call itself saw
AreaAfter(call) ==
  IF call.ret = "applied" THEN call.raw \cap call.before ELSE call.before

\* what a request served alone arrives at, given the answers the services
\* gave to its own calls: every call starts from the area its own previous
\* call left (the first from its own boundary), and the response is the area
\* left by its last call, with one record for each of its applied criteria
ServedAsAlone(f) ==
  LET n == Len(f.log)
      applied == { i \in 1..n : f.log[i].ret = "applied" }
  IN  /\ \A i \in 1..n :
           IF i = 1
           THEN \E c \in CenterSites : f.log[i].before = Disk(c.x, f.request.radius_miles)
           ELSE f.log[i].before = AreaAfter(f.log[i - 1])
      /\ ( f.session = "Ready" =>
             /\ \E c \in CenterSites : f.search_boundary = Disk(c.x, f.request.radius_miles)
             /\ f.current_search_area =
                  (IF n = 0 THEN f.search_boundary ELSE AreaAfter(f.log[n]))
             /\ Len(f.criteria_results) = Cardinality(applied) )
      /\ ( f.response.status = 200 =>
             /\ f.response.geometry =
                  (IF n = 0 THEN f.search_boundary ELSE AreaAfter(f.log[n]))
             /\ f.response.criteria_count = Cardinality(applied)
             /\ Len(f.response.criteria_applied) = Cardinality(applied) )

\* C18 (session isolation): with two requests served at once, in any
\* interleaving of their steps, a step of one request leaves the state of the
\* other as it was, and each request is carried through, and answered, as if
\* it were served alone.
C18_SessionsIsolated ==
  /\ [] (ServedAsAlone(Frame) /\ ServedAsAlone(parked))
  /\ [][ parked' # parked => (parked' = Frame /\ Frame' = parked) ]_vars

\* both requests are under way, each with one criterion applied to its own
\* area, and neither has been answered yet
C18_Witness ==
  /\ pc = "loop" /\ idx = 1 /\ Len(ordered_criteria) = 2
  /\ log[1].ret = "applied"
  /\ parked.pc = "loop" /\ parked.idx = 1
  /\ parked.log[1].ret = "applied"
  /\ current_search_area # search_boundary
  /\ parked.current_search_area # parked.search_boundary
  /\ current_search_area # parked.current_search_area

\* C19 (monthly quota): the usage recorded for the month never exceeds
\* monthly_limit, and no operation sends an API request once the recorded
\* usage has reached monthly_limit.
C19_QuotaRespected ==
  /\ tripadvisor.usage <= tripadvisor_monthly_limit
  /\ tripadvisor.over = 0

\* a step that is a call of one of the two apply methods
ApplyStep ==
  /\ calls' = calls + 1
  /\ last_call'.op \in { "add_simple_buffer_criterion", "add_travel_time_criterion" }
Unchanged2 ==
  /\ current_search_area' = current_search_area
  /\ criteria_results' = criteria_results
UpdatedTogether ==
  /\ Len(criteria_results') = Len(criteria_results) + 1
  /\ SubSeq(criteria_results', 1, Len(criteria_results)) = criteria_results
  /\ current_search_area' = criteria_results'[Len(criteria_results')].geometry

\* C20 as stated: a call that ends with an error, wherever it was raised,
\* leaves current_search_area and criteria_results as they were before it,
\* and no call updates one of the two without the other.
C20_FailedCallChangesNothing ==
  [][ ApplyStep =>
        /\ (Unchanged2 \/ UpdatedTogether)
        /\ (last_call'.ret \in { "error:compute", "error:report" } => Unchanged2) ]_vars

\* C20 (atomic update, amended): current_search_area and criteria_results are
\* updated together or not at all, and a call that ends with an error raised
\* before the update - while the buffers are projected, built, merged and
\* intersected - leaves both as they were before it; an error raised after
\* the update, while the stored result is measured and returned, leaves the
\* update in place.
C20_UpdateAllOrNothing ==
  [][ ApplyStep =>
        /\ (Unchanged2 \/ UpdatedTogether)
        /\ (last_call'.ret = "error:compute" => Unchanged2)
        /\ (last_call'.ret = "error:report" => UpdatedTogether) ]_vars

\* a call failed in its buffer computation after an earlier call had narrowed
\* the area and recorded its criterion, and left both in place
C20_Witness ==
  /\ last_call.ret = "error:compute"
  /\ last_call.prev[2] = "applied"
  /\ Len(criteria_results) = 1
  /\ current_search_area = criteria_results[1].geometry
  /\ current_search_area # search_boundary
  /\ current_search_area # {}

\* the raw buffer of a record: the union, over the source points, of the disk
\* (straight-line record) or of the anisotropic polygon (travel-time record)
\* its description stands for
RawBufferOf(pts, description) ==
  IF description.text = "miles (straight-line)"
  THEN { k \in Cells : \E p \in pts : WithinMeters(k, p, description.n * MetersPerMile) }
  ELSE { k \in Cells : \E p \in pts :
           k * MetersPerMile \in
             CreateRealisticBuffer(ToUtmPoint(p),
                                   TravelBufferMeters(description.n, description.text),
                                   description.text) }

\* C21 (intersection): after an applied call of add_simple_buffer_criterion or
\* add_travel_time_criterion the new current_search_area is the intersection
\* of the union of the buffers of all source points with the current area
\* from before the call, and the appended record holds that same geometry.
C21_AppliedIsIntersection ==
  [][ ( /\ last_call'.ret = "applied"
        /\ last_call'.op \in { "add_simple_buffer_criterion",
                               "add_travel_time_criterion" }
        /\ calls' = calls + 1 ) =>
        LET record == criteria_results'[Len(criteria_results')]
            raw == RawBufferOf(last_call'.pts, record.description)
        IN  /\ Len(criteria_results') = Len(criteria_results) + 1
            /\ current_search_area' = raw \cap current_search_area
            /\ record.geometry = raw \cap current_search_area ]_vars

\* a criterion with two source points was applied to an area an earlier
\* criterion had narrowed; its buffers neither cover that area nor lie in it
C21_Witness ==
  /\ last_call.ret = "applied" /\ Len(criteria_results) = 2
  /\ Cardinality(last_call.pts) = 2
  /\ last_call.before # search_boundary
  /\ ~(last_call.raw \subseteq last_call.before)
  /\ ~(last_call.before \subseteq last_call.raw)
  /\ current_search_area # {}

\* a step that is a call of an apply method with a POI type and no location:
\* the feature provider is asked, over the expanded query polygon
PoiLookupStep == calls' = calls + 1 /\ last_query'.expanded

\* the feature site s lies within d metres of some point of the area
CanReach(s, d, area) ==
  \E c \in area : /\ c * MetersPerMile - d <= s * MetersPerMile
                  /\ s * MetersPerMile <= (c + 1) * MetersPerMile + d

\* the current area of a step that applied the record, had the lookup given
\* the source points pts
AppliedFrom(pts) ==
  RawBufferOf(pts, criteria_results'[Len(criteria_results')].description)
    \cap current_search_area

\* C22 as stated: whatever the buffer distance and wherever the features lie,
\* every feature within the buffer distance of some point of the current
\* area is inside the query polygon, and the applied geometry is the one
\* obtained from all the features that can reach the current area.
C22_NoReachingFeatureExcluded ==
  [][ PoiLookupStep =>
        \A world \in SUBSET FeatureSites :
          LET reaching == { s \in world :
                             CanReach(s, last_query'.expansion_m, current_search_area) }
          IN  /\ \A s \in reaching : PointIn(s, last_query'.area)
              /\ (last_call'.pts = FeaturesIn(last_query'.area) \cap world
                     /\ last_call'.ret = "applied")
                   => current_search_area' = AppliedFrom(reaching) ]_vars

\* C22 (expansion keeps the reachable features, amended): when the buffer
\* distance is at most MAX_QUERY_EXPANSION_MILES, every feature inside
\* search_boundary that lies within the buffer distance of some point of the
\* current area is inside the query polygon, and the applied geometry is the
\* one obtained from all such features.  A feature outside the boundary, or
\* farther than 5 miles from the current area, is left out of the query even
\* when its buffer reaches the current area.
C22_NoNearFeatureExcluded ==
  [][ ( /\ PoiLookupStep
        /\ last_query'.expansion_m <= MAX_QUERY_EXPANSION_MILES * MetersPerMile ) =>
        \A world \in SUBSET FeatureSites :
          LET reaching == { s \in world :
                             /\ CanReach(s, last_query'.expansion_m, current_search_area)
                             /\ PointIn(s, search_boundary) }
          IN  /\ \A s \in reaching : PointIn(s, last_query'.area)
              /\ (last_call'.pts = FeaturesIn(last_query'.area) \cap world
                     /\ last_call'.ret = "applied")
                   => current_search_area' = AppliedFrom(reaching) ]_vars

\* a feature outside the narrowed current area, within the buffer distance
\* of it, was among the source points of an applied POI-type criterion
C22_Witness ==
  /\ last_call.ret = "applied" /\ last_query.expanded
  /\ last_query.current = last_call.before
  /\ last_call.before # search_boundary
  /\ last_query.expansion_m <= MAX_QUERY_EXPANSION_MILES * MetersPerMile
  /\ \E p \in last_call.pts :
        /\ ~PointIn(p, last_call.before)
        /\ CanReach(p, last_query.expansion_m, last_call.before)
  /\ current_search_area # {}

\* the radius, in metres, the buffers of a record were built with, as its
\* description tells it: n miles, or n minutes in the named mode
UsedRadiusMeters(description) ==
  IF description.text = "miles (straight-line)"
  THEN description.n * MetersPerMile
  ELSE TravelBufferMeters(description.n, description.text)

\* C23 (effective radius): whenever the loop applies a criterion, of POI type
\* or on a named location, the radius its buffers are built with is the
\* normalized radius the ranker computes for it: the value in miles for
\* distance mode, (value/60) * speed / adjustment miles for walk, bike, drive.
C23_RadiusIsNormalizedRadius ==
  [][ (pc = "loop" /\ idx' = idx + 1 /\ last_call'.ret = "applied") =>
        UsedRadiusMeters(criteria_results'[Len(criteria_results')].description)
          = EffectiveRadiusMeters(ordered_criteria[idx + 1]) ]_vars

\* the buffers the handler builds for criterion c around the points pts
CriterionBuffers(c, pts) == { k \in Cells : \E p \in pts : InCriterionBuffer(k, c, p) }

\* the polygon the second lookup of a session has to ask the provider about:
\* the area the first criterion left, widened by the capped distance
SecondQueryArea ==
  Dilation(log[2].before, Min(ordered_criteria[2].value, MAX_QUERY_EXPANSION_MILES))
    \cap search_boundary

\* every criterion evaluated on its own against the initial boundary, over
\* the features of world, and the results intersected: a named location
\* found at log[1].pts first, then a POI type, whose query polygon is then
\* the boundary itself
IndependentFinalArea(world) ==
  (CriterionBuffers(ordered_criteria[1], log[1].pts) \cap search_boundary)
    \cap (CriterionBuffers(ordered_criteria[2], world \cap FeaturesIn(search_boundary))
           \cap search_boundary)
IndependentAppliedCount(world) ==
  1 + (IF world \cap FeaturesIn(search_boundary) = {} THEN 0 ELSE 1)

\* C24 (sequential dependency): a session that applies a location criterion
\* and then looks up a POI type, in a world whose features of that type all
\* lie inside the boundary but out of reach of the area the first criterion
\* left, ends differently from the independent evaluation of the same two
\* criteria over the same world: in its final area or in the number of
\* criteria applied.
C24_SequentialDiffersFromIndependent ==
  ( /\ Answered /\ Len(ordered_criteria) = 2
    /\ ordered_criteria[1].type = "location" /\ log[1].ret = "applied"
    /\ ordered_criteria[2].type = "poi" /\ ~Unmapped(ordered_criteria[2].poi_type)
    /\ ~log[2].err ) =>
    \A world \in SUBSET FeatureSites :
      ( /\ log[2].pts = world \cap FeaturesIn(last_query.area)
        /\ world \cap FeaturesIn(SecondQueryArea) = {}
        /\ world \cap FeaturesIn(search_boundary) # {} ) =>
        \/ response.criteria_count # IndependentAppliedCount(world)
        \/ response.geometry # IndependentFinalArea(world)

\* such a session: the location criterion left a part of the boundary, the
\* POI lookup after it found nothing although a feature site lies inside the
\* boundary, and the independent evaluation over that feature ends with
\* another area and one more criterion applied
C24_Witness ==
  /\ Answered /\ Len(ordered_criteria) = 2
  /\ ordered_criteria[1].type = "location" /\ log[1].ret = "applied"
  /\ ordered_criteria[2].type = "poi" /\ ~Unmapped(ordered_criteria[2].poi_type)
  /\ log[2].ret = "skipped" /\ ~log[2].err
  /\ response.geometry # {} /\ response.criteria_count = 1
  /\ \E s \in FeatureSites :
        /\ PointIn(s, search_boundary) /\ ~PointIn(s, last_query.area)
        /\ IndependentAppliedCount({s}) = 2
        /\ IndependentFinalArea({s}) # response.geometry

\* the zone spec section 4.1 gives a longitude: floor((lon + 180) / 6) + 1
UtmZone(lon) == ((lon + 180) \div 6) + 1
\* the frame utm_crs has to name for the centre
StandardFrame ==
  IF center_point.lat >= 0 THEN 32600 + UtmZone(center_point.lon)
                           ELSE 32700 + UtmZone(center_point.lon)

Intensity(travel_mode) ==
  CASE travel_mode = "walk" -> 15 [] travel_mode = "bike" -> 20 [] travel_mode = "drive" -> 25

\* C26 (anisotropic buffer bound): each of the 36 vertices of the polygon
\* lies at a distance r from the centre with R*(1 - I) <= r <= R*(1 + I),
\* R the base radius and I the intensity of the mode.  Radii are held in
\* whole metres, so a vertex counts as outside only when it is outside by
\* more than a metre.
C26_VerticesWithinIntensity ==
  realistic_buffer # NoPolygon =>
    /\ Len(realistic_buffer.radii) = 36
    /\ \A v \in 1..Len(realistic_buffer.radii) :
         LET R == realistic_buffer.distance_meters
             I == Intensity(realistic_buffer.travel_mode)
             r == realistic_buffer.radii[v]
         IN  /\ R * (100 - I) <= (r + 1) * 100
             /\ (r - 1) * 100 <= R * (100 + I)

\* C27 (set once): center_point, utm_crs and search_boundary are those
\* __init__ has set: no call on a constructed analyzer, applied, skipped or
\* a read of the result, changes any of the three.
C27_InitFieldsFixed ==
  [][ session = "Ready" =>
        /\ center_point' = center_point
        /\ utm_crs' = utm_crs
        /\ search_boundary' = search_boundary ]_vars

\* a criterion was applied and narrowed the area, and the next was skipped
C27_Witness ==
  /\ session = "Ready" /\ calls = 2
  /\ last_call.ret = "skipped" /\ last_call.prev[2] = "applied"
  /\ current_search_area # search_boundary /\ current_search_area # {}
  /\ utm_crs = EstimateUtmCrs(center_point.lon, center_point.lat)

\* q is p with n more elements at its end
ExtendsBy(q, p, n) == Len(q) = Len(p) + n /\ SubSeq(q, 1, Len(p)) = p

\* C28 (append-only): a criterion call appends exactly one record to
\* criteria_results when the criterion is applied and none when it is
\* skipped, and no call of any method changes, reorders or removes a record
\* appended earlier: the list before a call is a prefix of the list after it.
C28_CriteriaResultsAppendOnly ==
  [][ session = "Ready" =>
        /\ (ExtendsBy(criteria_results', criteria_results, 0)
               \/ ExtendsBy(criteria_results', criteria_results, 1))
        /\ ( (calls' = calls + 1 /\ last_call'.op \in ApplyOps) =>
              /\ last_call'.ret \in { "applied", "skipped" }
              /\ (last_call'.ret = "applied" =>
                     ExtendsBy(criteria_results', criteria_results, 1))
              /\ (last_call'.ret = "skipped" =>
                     ExtendsBy(criteria_results', criteria_results, 0)) )
        /\ ( (calls' = calls + 1 /\ last_call'.op \notin ApplyOps) =>
              ExtendsBy(criteria_results', criteria_results, 0) ) ]_vars

\* a second record, with another geometry, was appended behind the first
C28_Witness ==
  /\ session = "Ready" /\ Len(criteria_results) = 2
  /\ last_call.ret = "applied" /\ last_call.prev[2] = "applied"
  /\ criteria_results[1].geometry = last_call.before
  /\ criteria_results[2].geometry = current_search_area
  /\ criteria_results[1].geometry # criteria_results[2].geometry
  /\ criteria_results[1].description # criteria_results[2].description

\* C29 (cache hit): enrich_poi on an enabled client, for a key whose cache
\* file is at most 7 days old, returns the cached data without cached_at,
\* sends no request and leaves the monthly usage as it was.
C29_CacheHitServedWithoutRequest ==
  [][ ( /\ tripadvisor.created /\ tripadvisor.enabled
        /\ tripadvisor'.op = "enrich_poi" /\ tripadvisor'.key \in CacheKeys
        /\ tripadvisor.cache[tripadvisor'.key].data # "absent"
        /\ tripadvisor.cache[tripadvisor'.key].age <= 7 ) =>
        /\ tripadvisor'.result = tripadvisor.cache[tripadvisor'.key].data
        /\ ~tripadvisor'.cached_at
        /\ tripadvisor'.sent = 0
        /\ tripadvisor'.usage = tripadvisor.usage ]_vars

\* C30 (expansion keeps the current area): whatever the state of the session
\* and the expansion asked for, the polygon _create_expanded_query_area
\* returns contains the whole current_search_area.
C30_QueryAreaContainsCurrent ==
  last_query.expanded => last_query.current \subseteq last_query.area

\* a narrowed, non-empty current area was widened for a query, with more
\* than the cap asked for
C30_Witness ==
  /\ last_query.expanded
  /\ last_query.expansion_m > MAX_QUERY_EXPANSION_MILES * MetersPerMile
  /\ last_query.current # {} /\ last_query.current # search_boundary
  /\ last_query.area # last_query.current
  /\ last_query.area # search_boundary

====
